---- MODULE Spec2Model ----
(***************************************************************************)
(* Model of the erc20 crate: the byte cursor (BytesToFixedNumber), the     *)
(* byte builder (FixedNumberToBytes), the ERC20 method selector table, the *)
(* transaction classifier and the transfer extractor.                      *)
(*                                                                         *)
(* Representation of the machine types:                                    *)
(*   u8     an integer 0..255                                              *)
(*   Vec<u8>, [u8; N], H160, H256   a sequence of u8 (H160: 20, H256: 32)   *)
(*   U256   the sequence of its 32 base-256 digits, least significant      *)
(*          first: d[k] is U256::byte(k-1)                                 *)
(*   usize  an integer read as two's complement: n >= 0 is n itself and    *)
(*          n < 0 is 2^w + n, the top of the machine-word range; sums are  *)
(*          then exact modulo 2^w for every word width w                   *)
(*   Option<T>  None, or [some |-> v]                                      *)
(*   Result<T, ERC20Error>  [tag |-> "Ok", v |-> ...],                     *)
(*          [tag |-> "Err", v |-> <error name>]; a panic of the call is    *)
(*          [tag |-> "Panic", v |-> <what panicked>]                       *)
(***************************************************************************)
EXTENDS Integers, Sequences, FiniteSets, TLC

VARIABLES
    pc,               \* position of the caller that drives the objects below
    overflow_checks,  \* build profile: TRUE = overflow checks on (debug), FALSE = wrapping (release)
    tx,               \* the web3 Transaction handed to the classifier / extractor
    parsed,           \* result of From<Transaction> for ParsedTransaction
    resp,             \* result of TryFrom<Transaction> for TransactionAndTransferType
    acc,              \* the last Transfer accessor called on resp, and what it returned
    calls,            \* number of accessor calls made on resp
    decoder,          \* BytesToFixedNumber { data, index }
    ret,              \* the last cursor operation, its argument, the index before it, its result
    encoder,          \* FixedNumberToBytes { data }
    pushed,           \* the values pushed into encoder, in order
    decoded,          \* the values read back from decoder, in order
    buf,              \* the Vec<u8> handed to the reverse method lookup
    sel,              \* result of the last forward lookup TryFrom<ERC20Method> for Vec<u8>
    method,           \* result of the last reverse lookup From<Vec<u8>> for ERC20Method
    address,          \* the H160 handed to the address lookup
    contract_value,   \* the ContractAddress at hand: where it came from and the value
    resolved,         \* result of the last From<ContractAddress> for H160
    equal             \* the last comparison: the other ContractAddress and the result of ==

vars == <<pc, overflow_checks, tx, parsed, resp, acc, calls,
          decoder, ret, encoder, pushed, decoded, buf, sel, method,
          address, contract_value, resolved, equal>>

extractVars == <<tx, parsed, resp, acc, calls>>
codecVars == <<encoder, pushed, decoded>>
addressVars == <<address, contract_value, resolved, equal>>
registryVars == <<buf, sel, method, addressVars>>

(***************************************************************************)
(* Bounds of the model.                                                    *)
(***************************************************************************)
MaxData == 40     \* longest buffer given to a free-standing cursor
MaxSize == 5      \* largest small size argument tried besides the word sizes
MaxWrap == 3      \* sizes 2^w - 1 .. 2^w - MaxWrap are tried as well
MaxBody == 100    \* longest argument area after the call-data prefix
MaxPush == 3      \* longest sequence of pushes into a builder
MaxCalls == 2     \* accessor calls made on one extracted transfer

(***************************************************************************)
(* Program constants.                                                      *)
(***************************************************************************)
WORD_SIZE_256_BITS == 32
WORD_SIZE_160_BITS == 20

None == [none |-> TRUE]
Some(v) == [some |-> v]
IsSome(o) == "some" \in DOMAIN o

Ok(v) == [tag |-> "Ok", v |-> v]
Err(e) == [tag |-> "Err", v |-> e]
Panic(what) == [tag |-> "Panic", v |-> what]

Unit == <<>>

\* Bytes (seed + step), (seed + 2 step), ...: the test data of the model.
Pattern(seed, step, n) == [i \in 1..n |-> (seed + step * i) % 256]

(***************************************************************************)
(* usize arithmetic (two's complement reading, see above).                 *)
(***************************************************************************)
\* a + b leaves the machine-word range.
UsizeAddOverflows(a, b) ==
    \/ a >= 0 /\ b < 0 /\ a + b >= 0
    \/ a < 0 /\ b >= 0 /\ a + b >= 0
    \/ a < 0 /\ b < 0

\* unsigned a > b
UsizeGt(a, b) == IF (a < 0) = (b < 0) THEN a > b ELSE a < 0

(***************************************************************************)
(* BytesToFixedNumber.  Every operation takes the cursor c and returns     *)
(* [c |-> the cursor afterwards, r |-> the Result].  checks is the build's *)
(* overflow-check setting.                                                 *)
(***************************************************************************)
BytesToFixedNumber_from(data) == [data |-> data, index |-> 0]

next_vec(c, size, checks) ==
    IF UsizeAddOverflows(c.index, size) /\ checks
    THEN [c |-> c, r |-> Panic("attempt to add with overflow")]
    ELSE IF UsizeGt(c.index + size, Len(c.data))
    THEN [c |-> c, r |-> Err("UnexpectedEndOfData")]
    ELSE IF UsizeGt(size, Len(c.data) - c.index)
    \* the wrapped sum passed the test: the copy loop runs off the buffer
    THEN [c |-> c, r |-> Panic("index out of bounds")]
    ELSE [c |-> [c EXCEPT !.index = c.index + size],
          r |-> Ok([i \in 1..size |-> c.data[c.index + i]])]

skip(c, size, checks) ==
    IF UsizeAddOverflows(c.index, size) /\ checks
    THEN [c |-> c, r |-> Panic("attempt to add with overflow")]
    ELSE IF UsizeGt(c.index + size, Len(c.data))
    THEN [c |-> c, r |-> Err("UnexpectedEndOfData")]
    ELSE [c |-> [c EXCEPT !.index = c.index + size], r |-> Ok(Unit)]

\* [u8; 20] -> H160 and [u8; 32] -> H256 keep the bytes in order.
H160_from(bytes) == [i \in 1..WORD_SIZE_160_BITS |-> bytes[i]]
H256_from(bytes) == [i \in 1..WORD_SIZE_256_BITS |-> bytes[i]]
\* mutant: the array read little-endian
U256_from_little_endian(bytes) ==
    [k \in 1..WORD_SIZE_256_BITS |-> bytes[k]]

\* [u8; 32] -> U256 reads the array big-endian: the last byte is digit 0.
U256_from(bytes) ==
    [k \in 1..WORD_SIZE_256_BITS |-> bytes[WORD_SIZE_256_BITS + 1 - k]]
\* U256::byte(i), i in 0..31
U256_byte(value, i) == value[i + 1]

next_h160_not_padded(c, checks) ==
    LET vec_resp == next_vec(c, WORD_SIZE_160_BITS, checks)
    IN  IF vec_resp.r.tag = "Ok"
        THEN [c |-> vec_resp.c, r |-> Ok(H160_from(vec_resp.r.v))]
        ELSE vec_resp

\* mutant: the 12 padding bytes are not skipped
next_h160_unskipped(c, checks) ==
    next_h160_not_padded(c, checks)

next_h160(c, checks) ==
    LET skipped == skip(c, WORD_SIZE_256_BITS - WORD_SIZE_160_BITS, checks)
    IN  IF skipped.r.tag = "Ok"
        THEN next_h160_not_padded(skipped.c, checks)
        ELSE skipped

next_h256(c, checks) ==
    LET vec_resp == next_vec(c, WORD_SIZE_256_BITS, checks)
    IN  IF vec_resp.r.tag = "Ok"
        THEN [c |-> vec_resp.c, r |-> Ok(H256_from(vec_resp.r.v))]
        ELSE vec_resp

next_u256(c, checks) ==
    LET vec_resp == next_vec(c, WORD_SIZE_256_BITS, checks)
    IN  IF vec_resp.r.tag = "Ok"
        THEN [c |-> vec_resp.c, r |-> Ok(U256_from(vec_resp.r.v))]
        ELSE vec_resp

(***************************************************************************)
(* FixedNumberToBytes.  Every operation takes the builder e and returns    *)
(* the builder afterwards.                                                 *)
(***************************************************************************)
FixedNumberToBytes_default == [data |-> <<>>]

push_vec(e, vec) == [data |-> e.data \o vec]

push_h160_not_padded(e, value) == [data |-> e.data \o value]

push_h160(e, value) ==
    push_h160_not_padded(
        [data |-> e.data \o [i \in 1..(WORD_SIZE_256_BITS - WORD_SIZE_160_BITS) |-> 0]],
        value)

push_h256(e, value) == [data |-> e.data \o value]

\* mutant: the bytes pushed from the least significant one
push_u256_little_endian(e, value) ==
    [data |-> e.data \o [j \in 1..WORD_SIZE_256_BITS |-> U256_byte(value, j - 1)]]

\* for i in (0..32).rev(): the j-th byte pushed is value.byte(32 - j)
push_u256(e, value) ==
    [data |-> e.data \o
        [j \in 1..WORD_SIZE_256_BITS |-> U256_byte(value, WORD_SIZE_256_BITS - j)]]

\* From<FixedNumberToBytes> for Vec<u8>
FixedNumberToBytes_into(e) == e.data

(***************************************************************************)
(* ERC20 method selector table.                                            *)
(***************************************************************************)
NamedMethods ==
    {"Allowance", "Approve", "BalanceOf", "TotalSupply", "Transfer", "TransferFrom"}

ERC20Method == NamedMethods \cup {"Unidentified"}

\* mutant: TotalSupply carries the selector of Transfer
ERC20Method_try_into_duplicate(value) ==
    CASE value = "Allowance"    -> Ok(<<221, 98, 237, 62>>)
      [] value = "Approve"      -> Ok(<<9, 94, 167, 179>>)
      [] value = "BalanceOf"    -> Ok(<<112, 160, 130, 49>>)
      [] value = "TotalSupply"  -> Ok(<<169, 5, 156, 187>>)
      [] value = "Transfer"     -> Ok(<<169, 5, 156, 187>>)
      [] value = "TransferFrom" -> Ok(<<35, 184, 114, 221>>)
      [] value = "Unidentified" -> Err("UnexpectedType")

\* TryFrom<ERC20Method> for [u8; 4]
ERC20Method_try_into(value) ==
    CASE value = "Allowance"    -> Ok(<<221, 98, 237, 62>>)    \* dd 62 ed 3e
      [] value = "Approve"      -> Ok(<<9, 94, 167, 179>>)     \* 09 5e a7 b3
      [] value = "BalanceOf"    -> Ok(<<112, 160, 130, 49>>)   \* 70 a0 82 31
      [] value = "TotalSupply"  -> Ok(<<24, 22, 13, 221>>)     \* 18 16 0d dd
      [] value = "Transfer"     -> Ok(<<169, 5, 156, 187>>)    \* a9 05 9c bb
      [] value = "TransferFrom" -> Ok(<<35, 184, 114, 221>>)   \* 23 b8 72 dd
      [] value = "Unidentified" -> Err("UnexpectedType")

\* TryFrom<ERC20Method> for Vec<u8>: the ? passes the error on
ERC20Method_try_into_vec(value) ==
    LET selector == ERC20Method_try_into(value)
    IN  IF selector.tag = "Ok" THEN Ok(selector.v) ELSE selector

\* slice::starts_with
starts_with(data, needle) ==
    /\ Len(data) >= Len(needle)
    /\ \A i \in 1..Len(needle) : data[i] = needle[i]

\* From<Vec<u8>> for ERC20Method.  The table is a HashMap with a random
\* hasher, so the loop visits the six entries in an unspecified order and
\* returns the first one that matches: the call can return any matching key.
\* The operator is the set of values the call can return.
ERC20Method_from(data) ==
    IF Len(data) = 0 \/ Len(data) < 4
    THEN {"Unidentified"}
    ELSE LET method_encoding ==
                 [key \in NamedMethods |-> ERC20Method_try_into(key).v]
             matching ==
                 {key \in NamedMethods : starts_with(data, method_encoding[key])}
         IN  IF matching = {} THEN {"Unidentified"} ELSE matching

(***************************************************************************)
(* Transaction classifier.  method stands for the value the reverse lookup *)
(* returned inside the call.                                               *)
(***************************************************************************)
\* From<Transaction> for TransactionContractInvocation
TransactionContractInvocation_from(transaction, m) ==
    IF m = "Unidentified"
    THEN [inv |-> "Other", method |-> "Unidentified", transaction |-> transaction]
    ELSE [inv |-> "ERC20", method |-> m, transaction |-> transaction]

NoInvocation(transaction) ==
    [inv |-> "none", method |-> "Unidentified", transaction |-> transaction]

\* mutant: the two outcomes for an absent recipient exchanged
ParsedTransaction_from_swapped(transaction, m) ==
    IF ~IsSome(transaction.to)
    THEN IF Len(transaction.input) = 0
         THEN [kind |-> "ContractCreation", c |-> NoInvocation(transaction)]
         ELSE [kind |-> "Other", c |-> NoInvocation(transaction)]
    ELSE IF Len(transaction.input) # 0
         THEN [kind |-> "ContractInvocation",
               c |-> TransactionContractInvocation_from(transaction, m)]
         ELSE [kind |-> "Other", c |-> NoInvocation(transaction)]

\* From<Transaction> for ParsedTransaction
ParsedTransaction_from(transaction, m) ==
    IF ~IsSome(transaction.to)
    THEN IF Len(transaction.input) = 0
         THEN [kind |-> "Other", c |-> NoInvocation(transaction)]
         ELSE [kind |-> "ContractCreation", c |-> NoInvocation(transaction)]
    ELSE IF Len(transaction.input) # 0
         THEN [kind |-> "ContractInvocation",
               c |-> TransactionContractInvocation_from(transaction, m)]
         ELSE [kind |-> "Other", c |-> NoInvocation(transaction)]

(***************************************************************************)
(* Transfer extractor.                                                     *)
(***************************************************************************)
\* mutant: every ERC20 method is accepted as a transfer
TransactionAndTransferType_try_from_any_method(parsed_transaction) ==
    CASE parsed_transaction.kind = "EthereumTransfer" ->
            Ok([transaction |-> parsed_transaction.c.transaction,
                transfer_type |-> "Ethereum"])
      [] parsed_transaction.kind = "ContractInvocation" ->
            IF parsed_transaction.c.inv = "ERC20"
            THEN Ok([transaction |-> parsed_transaction.c.transaction,
                     transfer_type |-> "ERC20"])
            ELSE Err("NoTransferTransaction")
      [] parsed_transaction.kind = "ContractCreation" -> Err("NoTransferTransaction")
      [] parsed_transaction.kind = "Other" -> Err("NoTransferTransaction")

\* TryFrom<Transaction> for TransactionAndTransferType
TransactionAndTransferType_try_from(parsed_transaction) ==
    CASE parsed_transaction.kind = "EthereumTransfer" ->
            Ok([transaction |-> parsed_transaction.c.transaction,
                transfer_type |-> "Ethereum"])
      [] parsed_transaction.kind = "ContractInvocation" ->
            IF parsed_transaction.c.inv = "ERC20"
            THEN IF parsed_transaction.c.method \in {"Transfer", "TransferFrom"}
                 THEN Ok([transaction |-> parsed_transaction.c.transaction,
                          transfer_type |-> "ERC20"])
                 ELSE Err("NoTransferTransaction")
            ELSE Err("NoTransferTransaction")
      [] parsed_transaction.kind = "ContractCreation" -> Err("NoTransferTransaction")
      [] parsed_transaction.kind = "Other" -> Err("NoTransferTransaction")

\* TransactionAndTransferType::get_from_to_value; m is the value the reverse
\* lookup returns inside this call.  `let _ignore = resp.next_vec(4)` drops
\* an Err; each `?` returns the failure of its step.
get_from_to_value(self, m, checks) ==
    IF self.transfer_type = "Ethereum"
    THEN IF IsSome(self.transaction.to)
         THEN Ok(<<self.transaction.from, self.transaction.to.some,
                   self.transaction.value>>)
         ELSE Err("NoTransferTransaction")
    ELSE LET contract_invocation ==
                 TransactionContractInvocation_from(self.transaction, m)
             transaction == contract_invocation.transaction
             s0 == next_vec(BytesToFixedNumber_from(transaction.input), 4, checks)
         IN  IF contract_invocation.inv = "ERC20"
             THEN CASE contract_invocation.method = "Transfer" ->
                         LET s1 == next_h160(s0.c, checks)
                             s2 == next_u256(s1.c, checks)
                         IN  IF s0.r.tag = "Panic" THEN s0.r
                             ELSE IF s1.r.tag # "Ok" THEN s1.r
                             ELSE IF s2.r.tag # "Ok" THEN s2.r
                             ELSE Ok(<<transaction.from, s1.r.v, s2.r.v>>)
                    [] contract_invocation.method = "TransferFrom" ->
                         LET s1 == next_h160(s0.c, checks)
                             s2 == next_h160(s1.c, checks)
                             s3 == next_u256(s2.c, checks)
                         IN  IF s0.r.tag = "Panic" THEN s0.r
                             ELSE IF s1.r.tag # "Ok" THEN s1.r
                             ELSE IF s2.r.tag # "Ok" THEN s2.r
                             ELSE IF s3.r.tag # "Ok" THEN s3.r
                             ELSE Ok(<<s1.r.v, s2.r.v, s3.r.v>>)
                    [] OTHER -> Err("NoTransferTransaction")
             ELSE Err("NoTransferTransaction")

\* impl Transfer for TransactionAndTransferType
Transfer_from(self, m, checks) ==
    LET got == get_from_to_value(self, m, checks)
    IN  IF got.tag = "Ok" THEN Ok(got.v[1])
        ELSE Panic("Unexpected transaction for TransactionAndTransferType::from")

Transfer_to(self, m, checks) ==
    LET got == get_from_to_value(self, m, checks)
    IN  IF got.tag = "Ok" THEN Ok(got.v[2])
        ELSE Panic("Unexpected transaction for TransactionAndTransferType::to")

Transfer_value(self, m, checks) ==
    LET got == get_from_to_value(self, m, checks)
    IN  IF got.tag = "Ok" THEN Ok(got.v[3])
        ELSE Panic("Unexpected transaction for TransactionAndTransferType::value")

Transfer_contract(self) ==
    IF self.transfer_type = "Ethereum"
    THEN Ok(None)
    ELSE IF IsSome(self.transaction.to)
         THEN Ok(Some(self.transaction.to.some))
         ELSE Panic("Unexpected transaction for TransactionAndTransferType::contract")

Transfer_tx_hash(self) == Ok(self.transaction.hash)
Transfer_block_hash(self) == Ok(self.transaction.block_hash)
Transfer_block_number(self) == Ok(self.transaction.block_number)
Transfer_transaction_index(self) == Ok(self.transaction.transaction_index)

\* impl dyn Transfer: kind()
Transfer_kind(self) ==
    LET contract == Transfer_contract(self)
    IN  IF contract.tag # "Ok" THEN contract
        ELSE IF IsSome(contract.v) THEN Ok("ERC20") ELSE Ok("Ethereum")

(***************************************************************************)
(* Contract h160 registry.  A ContractAddress is [name, addr]: addr is  *)
(* the wrapped H160 of Unidentified and empty for the 16 unit variants.    *)
(***************************************************************************)
ContractNames ==
    {"BAT", "BNB", "BUSD", "LINK", "TUSD", "USDC", "USDT", "WBTC",
     "cDAI", "CRO", "OKB", "LEO", "WFIL", "VEN", "DAI", "UNI"}

Named(name) == [name |-> name, addr |-> <<>>]
Unidentified(h160) == [name |-> "Unidentified", addr |-> h160]

\* #[derive(PartialEq)] on ContractAddress: same variant, same payload
ContractAddress_eq(a, b) ==
    /\ a.name = b.name
    /\ a.name = "Unidentified" => a.addr = b.addr

\* the value of one hex digit, of either case; 16 for any other character
HexDigit(ch) ==
    CASE ch = "0" -> 0 [] ch = "1" -> 1 [] ch = "2" -> 2 [] ch = "3" -> 3
      [] ch = "4" -> 4 [] ch = "5" -> 5 [] ch = "6" -> 6 [] ch = "7" -> 7
      [] ch = "8" -> 8 [] ch = "9" -> 9
      [] ch \in {"a", "A"} -> 10 [] ch \in {"b", "B"} -> 11
      [] ch \in {"c", "C"} -> 12 [] ch \in {"d", "D"} -> 13
      [] ch \in {"e", "E"} -> 14 [] ch \in {"f", "F"} -> 15
      [] OTHER -> 16

\* H160::from_str: 40 hex digits without prefix, two per byte, first byte first
H160_from_str(str) ==
    IF Len(str) # 2 * WORD_SIZE_160_BITS \/ \E i \in 1..Len(str) : HexDigit(str[i]) = 16
    THEN Err("FromHexError")
    ELSE Ok([i \in 1..WORD_SIZE_160_BITS |->
                16 * HexDigit(str[2 * i - 1]) + HexDigit(str[2 * i])])

\* mutant: CRO carries the digits of USDC
ContractHex_duplicate ==
    [TUSD |->
        <<"0", "0", "0", "0", "0", "0", "0", "0", "0", "0", "0", "8", "5", "d", "4", "7", "8", "0", "B", "7", "3", "1", "1", "9", "b", "6", "4", "4", "A", "E", "5", "e", "c", "d", "2", "2", "b", "3", "7", "6">>,
     LINK |->
        <<"5", "1", "4", "9", "1", "0", "7", "7", "1", "a", "f", "9", "c", "a", "6", "5", "6", "a", "f", "8", "4", "0", "d", "f", "f", "8", "3", "e", "8", "2", "6", "4", "e", "c", "f", "9", "8", "6", "c", "a">>,
     BNB |->
        <<"B", "8", "c", "7", "7", "4", "8", "2", "e", "4", "5", "F", "1", "F", "4", "4", "d", "E", "1", "7", "4", "5", "F", "5", "2", "C", "7", "4", "4", "2", "6", "C", "6", "3", "1", "b", "D", "D", "5", "2">>,
     USDC |->
        <<"a", "0", "b", "8", "6", "9", "9", "1", "c", "6", "2", "1", "8", "b", "3", "6", "c", "1", "d", "1", "9", "d", "4", "a", "2", "e", "9", "e", "b", "0", "c", "e", "3", "6", "0", "6", "e", "b", "4", "8">>,
     WBTC |->
        <<"2", "2", "6", "0", "f", "a", "c", "5", "e", "5", "5", "4", "2", "a", "7", "7", "3", "a", "a", "4", "4", "f", "b", "c", "f", "e", "d", "f", "7", "c", "1", "9", "3", "b", "c", "2", "c", "5", "9", "9">>,
     cDAI |->
        <<"5", "d", "3", "a", "5", "3", "6", "E", "4", "D", "6", "D", "b", "D", "6", "1", "1", "4", "c", "c", "1", "E", "a", "d", "3", "5", "7", "7", "7", "b", "A", "B", "9", "4", "8", "E", "3", "6", "4", "3">>,
     OKB |->
        <<"7", "5", "2", "3", "1", "f", "5", "8", "b", "4", "3", "2", "4", "0", "c", "9", "7", "1", "8", "d", "d", "5", "8", "b", "4", "9", "6", "7", "c", "5", "1", "1", "4", "3", "4", "2", "a", "8", "6", "c">>,
     CRO |->
        <<"a", "0", "b", "8", "6", "9", "9", "1", "c", "6", "2", "1", "8", "b", "3", "6", "c", "1", "d", "1", "9", "d", "4", "a", "2", "e", "9", "e", "b", "0", "c", "e", "3", "6", "0", "6", "e", "b", "4", "8">>,
     WFIL |->
        <<"6", "e", "1", "A", "1", "9", "F", "2", "3", "5", "b", "E", "7", "E", "D", "8", "E", "3", "3", "6", "9", "e", "F", "7", "3", "b", "1", "9", "6", "C", "0", "7", "2", "5", "7", "4", "9", "4", "D", "E">>,
     BAT |->
        <<"0", "d", "8", "7", "7", "5", "f", "6", "4", "8", "4", "3", "0", "6", "7", "9", "a", "7", "0", "9", "e", "9", "8", "d", "2", "b", "0", "c", "b", "6", "2", "5", "0", "d", "2", "8", "8", "7", "e", "f">>,
     BUSD |->
        <<"4", "f", "a", "b", "b", "1", "4", "5", "d", "6", "4", "6", "5", "2", "a", "9", "4", "8", "d", "7", "2", "5", "3", "3", "0", "2", "3", "f", "6", "e", "7", "a", "6", "2", "3", "c", "7", "c", "5", "3">>,
     USDT |->
        <<"d", "a", "c", "1", "7", "f", "9", "5", "8", "d", "2", "e", "e", "5", "2", "3", "a", "2", "2", "0", "6", "2", "0", "6", "9", "9", "4", "5", "9", "7", "c", "1", "3", "d", "8", "3", "1", "e", "c", "7">>,
     LEO |->
        <<"2", "a", "f", "5", "d", "2", "a", "d", "7", "6", "7", "4", "1", "1", "9", "1", "d", "1", "5", "d", "f", "e", "7", "b", "f", "6", "a", "c", "9", "2", "d", "4", "b", "d", "9", "1", "2", "c", "a", "3">>,
     VEN |->
        <<"d", "8", "5", "0", "9", "4", "2", "e", "f", "8", "8", "1", "1", "f", "2", "a", "8", "6", "6", "6", "9", "2", "a", "6", "2", "3", "0", "1", "1", "b", "d", "e", "5", "2", "a", "4", "6", "2", "c", "1">>,
     DAI |->
        <<"6", "b", "1", "7", "5", "4", "7", "4", "e", "8", "9", "0", "9", "4", "c", "4", "4", "d", "a", "9", "8", "b", "9", "5", "4", "e", "e", "d", "e", "a", "c", "4", "9", "5", "2", "7", "1", "d", "0", "f">>,
     UNI |->
        <<"1", "f", "9", "8", "4", "0", "a", "8", "5", "d", "5", "a", "f", "5", "b", "f", "1", "d", "1", "7", "6", "2", "f", "9", "2", "5", "b", "d", "a", "d", "d", "c", "4", "2", "0", "1", "f", "9", "8", "4">>]

\* the digits written in ContractAddress::contract_and_address
ContractHex ==
    [TUSD |->
        <<"0", "0", "0", "0", "0", "0", "0", "0", "0", "0", "0", "8", "5", "d", "4", "7", "8", "0", "B", "7", "3", "1", "1", "9", "b", "6", "4", "4", "A", "E", "5", "e", "c", "d", "2", "2", "b", "3", "7", "6">>,
     LINK |->
        <<"5", "1", "4", "9", "1", "0", "7", "7", "1", "a", "f", "9", "c", "a", "6", "5", "6", "a", "f", "8", "4", "0", "d", "f", "f", "8", "3", "e", "8", "2", "6", "4", "e", "c", "f", "9", "8", "6", "c", "a">>,
     BNB |->
        <<"B", "8", "c", "7", "7", "4", "8", "2", "e", "4", "5", "F", "1", "F", "4", "4", "d", "E", "1", "7", "4", "5", "F", "5", "2", "C", "7", "4", "4", "2", "6", "C", "6", "3", "1", "b", "D", "D", "5", "2">>,
     USDC |->
        <<"a", "0", "b", "8", "6", "9", "9", "1", "c", "6", "2", "1", "8", "b", "3", "6", "c", "1", "d", "1", "9", "d", "4", "a", "2", "e", "9", "e", "b", "0", "c", "e", "3", "6", "0", "6", "e", "b", "4", "8">>,
     WBTC |->
        <<"2", "2", "6", "0", "f", "a", "c", "5", "e", "5", "5", "4", "2", "a", "7", "7", "3", "a", "a", "4", "4", "f", "b", "c", "f", "e", "d", "f", "7", "c", "1", "9", "3", "b", "c", "2", "c", "5", "9", "9">>,
     cDAI |->
        <<"5", "d", "3", "a", "5", "3", "6", "E", "4", "D", "6", "D", "b", "D", "6", "1", "1", "4", "c", "c", "1", "E", "a", "d", "3", "5", "7", "7", "7", "b", "A", "B", "9", "4", "8", "E", "3", "6", "4", "3">>,
     OKB |->
        <<"7", "5", "2", "3", "1", "f", "5", "8", "b", "4", "3", "2", "4", "0", "c", "9", "7", "1", "8", "d", "d", "5", "8", "b", "4", "9", "6", "7", "c", "5", "1", "1", "4", "3", "4", "2", "a", "8", "6", "c">>,
     CRO |->
        <<"a", "0", "b", "7", "3", "e", "1", "f", "f", "0", "b", "8", "0", "9", "1", "4", "a", "b", "6", "f", "e", "0", "4", "4", "4", "e", "6", "5", "8", "4", "8", "c", "4", "c", "3", "4", "4", "5", "0", "b">>,
     WFIL |->
        <<"6", "e", "1", "A", "1", "9", "F", "2", "3", "5", "b", "E", "7", "E", "D", "8", "E", "3", "3", "6", "9", "e", "F", "7", "3", "b", "1", "9", "6", "C", "0", "7", "2", "5", "7", "4", "9", "4", "D", "E">>,
     BAT |->
        <<"0", "d", "8", "7", "7", "5", "f", "6", "4", "8", "4", "3", "0", "6", "7", "9", "a", "7", "0", "9", "e", "9", "8", "d", "2", "b", "0", "c", "b", "6", "2", "5", "0", "d", "2", "8", "8", "7", "e", "f">>,
     BUSD |->
        <<"4", "f", "a", "b", "b", "1", "4", "5", "d", "6", "4", "6", "5", "2", "a", "9", "4", "8", "d", "7", "2", "5", "3", "3", "0", "2", "3", "f", "6", "e", "7", "a", "6", "2", "3", "c", "7", "c", "5", "3">>,
     USDT |->
        <<"d", "a", "c", "1", "7", "f", "9", "5", "8", "d", "2", "e", "e", "5", "2", "3", "a", "2", "2", "0", "6", "2", "0", "6", "9", "9", "4", "5", "9", "7", "c", "1", "3", "d", "8", "3", "1", "e", "c", "7">>,
     LEO |->
        <<"2", "a", "f", "5", "d", "2", "a", "d", "7", "6", "7", "4", "1", "1", "9", "1", "d", "1", "5", "d", "f", "e", "7", "b", "f", "6", "a", "c", "9", "2", "d", "4", "b", "d", "9", "1", "2", "c", "a", "3">>,
     VEN |->
        <<"d", "8", "5", "0", "9", "4", "2", "e", "f", "8", "8", "1", "1", "f", "2", "a", "8", "6", "6", "6", "9", "2", "a", "6", "2", "3", "0", "1", "1", "b", "d", "e", "5", "2", "a", "4", "6", "2", "c", "1">>,
     DAI |->
        <<"6", "b", "1", "7", "5", "4", "7", "4", "e", "8", "9", "0", "9", "4", "c", "4", "4", "d", "a", "9", "8", "b", "9", "5", "4", "e", "e", "d", "e", "a", "c", "4", "9", "5", "2", "7", "1", "d", "0", "f">>,
     UNI |->
        <<"1", "f", "9", "8", "4", "0", "a", "8", "5", "d", "5", "a", "f", "5", "b", "f", "1", "d", "1", "7", "6", "2", "f", "9", "2", "5", "b", "d", "a", "d", "d", "c", "4", "2", "0", "1", "f", "9", "8", "4">>]

\* ContractAddress::contract_and_address: every entry is from_str(..).unwrap()
contract_and_address ==
    IF \E key \in ContractNames : H160_from_str(ContractHex[key]).tag # "Ok"
    THEN Panic("called Result::unwrap() on an Err value")
    ELSE Ok([key \in ContractNames |-> H160_from_str(ContractHex[key]).v])

\* From<H160> for ContractAddress.  The loop visits the HashMap in an
\* unspecified order and returns the first entry whose h160 matches: the
\* operator is the set of results the call can have.
ContractAddress_from(h160) ==
    IF contract_and_address.tag # "Ok"
    THEN {contract_and_address}
    ELSE LET matching ==
                 {key \in ContractNames : contract_and_address.v[key] = h160}
         IN  IF matching = {}
             THEN {Ok(Unidentified(h160))}
             ELSE {Ok(Named(key)) : key \in matching}

\* From<ContractAddress> for H160, again as the set of possible results
ContractAddress_into_h160(contract_address) ==
    IF contract_and_address.tag # "Ok"
    THEN {contract_and_address}
    ELSE LET matching ==
                 {key \in ContractNames :
                     ContractAddress_eq(contract_address, Named(key))}
         IN  IF matching # {}
             THEN {Ok(contract_and_address.v[key]) : key \in matching}
             ELSE IF contract_address.name = "Unidentified"
             THEN {Ok(contract_address.addr)}
             ELSE {Panic("Unexpected key")}

(***************************************************************************)
(* A free-standing cursor driven by an arbitrary caller.                   *)
(***************************************************************************)
\* size arguments tried: small ones, the word sizes, and the top of the range
Sizes ==
    (0..MaxSize) \cup {WORD_SIZE_160_BITS, WORD_SIZE_256_BITS}
    \cup {-k : k \in 1..MaxWrap}

NoRet == [op |-> "none", size |-> 0, before |-> 0, r |-> Ok(Unit)]

\* the cursor takes over the outcome of one operation
CursorStep(op, size, out) ==
    /\ decoder' = out.c
    /\ ret' = [op |-> op, size |-> size, before |-> decoder.index, r |-> out.r]
    /\ pc' = IF out.r.tag = "Panic" THEN "panicked" ELSE "cursor"
    /\ UNCHANGED <<overflow_checks, extractVars, codecVars, registryVars>>

NextVec ==
    /\ pc = "cursor"
    /\ \E size \in Sizes :
          CursorStep("next_vec", size, next_vec(decoder, size, overflow_checks))

Skip ==
    /\ pc = "cursor"
    /\ \E size \in Sizes :
          CursorStep("skip", size, skip(decoder, size, overflow_checks))

NextH160 ==
    /\ pc = "cursor"
    /\ CursorStep("next_h160", 0, next_h160(decoder, overflow_checks))

NextH160NotPadded ==
    /\ pc = "cursor"
    /\ CursorStep("next_h160_not_padded", 0,
                  next_h160_not_padded(decoder, overflow_checks))

NextH256 ==
    /\ pc = "cursor"
    /\ CursorStep("next_h256", 0, next_h256(decoder, overflow_checks))

NextU256 ==
    /\ pc = "cursor"
    /\ CursorStep("next_u256", 0, next_u256(decoder, overflow_checks))

NoTx == [none |-> TRUE]

IdleExtract ==
    /\ tx = NoTx /\ parsed = None /\ resp = None /\ acc = None /\ calls = 0

IdleCodec ==
    /\ encoder = [data |-> <<>>] /\ pushed = <<>> /\ decoded = <<>>

IdleAddress ==
    /\ address = <<>> /\ contract_value = None /\ resolved = None /\ equal = None

IdleRegistry ==
    /\ buf = <<>> /\ sel = None /\ method = None
    /\ IdleAddress

IdleCursor ==
    /\ decoder = BytesToFixedNumber_from(<<>>) /\ ret = NoRet

InitCursor ==
    /\ pc = "cursor"
    /\ overflow_checks \in BOOLEAN
    /\ \E n \in 0..MaxData, seed \in {0, 200} :
          decoder = BytesToFixedNumber_from(Pattern(seed, 3, n))
    /\ ret = NoRet
    /\ IdleExtract
    /\ IdleCodec
    /\ IdleRegistry

NextCursor ==
    \/ NextVec
    \/ Skip
    \/ NextH160
    \/ NextH160NotPadded
    \/ NextH256
    \/ NextU256

SpecCursor == InitCursor /\ [][NextCursor]_vars

\* C10: next_vec(n) and skip(n) succeed, returning the n bytes at
\* [offset, offset+n) and advancing the offset by n, exactly when at least n
\* bytes remain, and otherwise fail with UnexpectedEndOfData; they never panic.
C10_NextVecSkipChecked ==
    ret.op \in {"next_vec", "skip"} =>
        IF UsizeGt(ret.size, Len(decoder.data) - ret.before)
        THEN /\ ret.r.tag = "Err"
             /\ ret.r.v = "UnexpectedEndOfData"
        ELSE /\ ret.r.tag = "Ok"
             /\ decoder.index = ret.before + ret.size
             /\ ret.op = "next_vec" =>
                    ret.r.v = SubSeq(decoder.data, ret.before + 1, ret.before + ret.size)

\* C11: over any sequence of cursor operations the read offset never
\* exceeds the buffer length and never decreases from one operation to the
\* next.
C11_OffsetMonotonic ==
    [][/\ decoder'.index >= decoder.index
       /\ decoder'.index <= Len(decoder'.data)]_vars

\* C14: a cursor operation that fails with UnexpectedEndOfData leaves the
\* read offset where it was; next_h160 too, when its 20-byte read fails after
\* the 12-byte skip.
C14_FailedReadConsumesNothing ==
    (ret.op # "none" /\ ret.r.tag = "Err") =>
        (ret.r.v = "UnexpectedEndOfData" /\ decoder.index = ret.before)

(***************************************************************************)
(* The classifier and the extractor applied to one transaction, and the    *)
(* Transfer accessors called on the extracted value.                       *)
(***************************************************************************)
TransferSelector == <<169, 5, 156, 187>>
TransferFromSelector == <<35, 184, 114, 221>>

\* the call-data of util_test.rs after the selector: address 0x..01, amount 2
TestBody ==
    [i \in 1..(2 * WORD_SIZE_256_BITS) |->
        IF i = WORD_SIZE_256_BITS THEN 1
        ELSE IF i = 2 * WORD_SIZE_256_BITS THEN 2 ELSE 0]

Prefixes ==
    {ERC20Method_try_into(key).v : key \in NamedMethods} \cup {<<222, 173, 190, 239>>}

Bodies ==
    {Pattern(seed, 3, n) : seed \in {0, 101}, n \in 0..MaxBody} \cup {TestBody}

\* call-data: a 4-byte prefix and an argument area, or less than a selector
CallDatas ==
    {prefix \o body : prefix \in Prefixes, body \in Bodies}
    \cup {SubSeq(TransferSelector, 1, k) : k \in 0..3}

\* the fields of web3's Transaction that the crate reads
Transactions ==
    [hash : {Pattern(9, 2, WORD_SIZE_256_BITS)},
     block_hash : {None, Some(Pattern(11, 5, WORD_SIZE_256_BITS))},
     block_number : {None},
     transaction_index : {None},
     from : {Pattern(40, 1, WORD_SIZE_160_BITS)},
     to : {None, Some(Pattern(80, 1, WORD_SIZE_160_BITS))},
     value : {Pattern(0, 0, WORD_SIZE_256_BITS)},
     input : CallDatas]
    \cup
    [hash : {Pattern(9, 2, WORD_SIZE_256_BITS)},
     block_hash : {Some(Pattern(11, 5, WORD_SIZE_256_BITS))},
     block_number : {Some(12)},
     transaction_index : {Some(0)},
     from : {Pattern(40, 1, WORD_SIZE_160_BITS)},
     to : {Some(Pattern(80, 1, WORD_SIZE_160_BITS))},
     value : {Pattern(1, 0, WORD_SIZE_256_BITS)},
     input : {<<>>, TransferSelector \o TestBody}]

InitExtract ==
    /\ pc = "tx"
    /\ overflow_checks \in BOOLEAN
    /\ tx \in Transactions
    /\ parsed = None /\ resp = None /\ acc = None /\ calls = 0
    /\ IdleCursor
    /\ IdleCodec
    /\ IdleRegistry

\* let parsed: ParsedTransaction = transaction.into();
Classify ==
    /\ pc = "tx"
    /\ parsed = None
    /\ \E m \in ERC20Method_from(tx.input) :
          parsed' = Some(ParsedTransaction_from(tx, m))
    /\ UNCHANGED <<pc, overflow_checks, tx, resp, acc, calls,
                   decoder, ret, codecVars, registryVars>>

\* let resp: Result<TransactionAndTransferType, ERC20Error> = transaction.try_into();
\* parsed takes the function's local parsed_transaction.
TryFrom ==
    /\ pc = "tx"
    /\ \E m \in ERC20Method_from(tx.input) :
          LET parsed_transaction == ParsedTransaction_from(tx, m)
          IN  /\ parsed' = Some(parsed_transaction)
              /\ resp' = Some(TransactionAndTransferType_try_from(parsed_transaction))
    /\ pc' = "extracted"
    /\ UNCHANGED <<overflow_checks, tx, acc, calls,
                   decoder, ret, codecVars, registryVars>>

\* one call on the extracted transfer
Call(op, r) ==
    /\ acc' = Some([op |-> op, r |-> r])
    /\ calls' = calls + 1
    /\ pc' = IF r.tag = "Panic" THEN "panicked" ELSE "extracted"
    /\ UNCHANGED <<overflow_checks, tx, parsed, resp,
                   decoder, ret, codecVars, registryVars>>

CanCall ==
    /\ pc = "extracted"
    /\ resp.some.tag = "Ok"
    /\ calls < MaxCalls

CallGetFromToValue ==
    /\ CanCall
    /\ \E m \in ERC20Method_from(resp.some.v.transaction.input) :
          Call("get_from_to_value", get_from_to_value(resp.some.v, m, overflow_checks))

CallFrom ==
    /\ CanCall
    /\ \E m \in ERC20Method_from(resp.some.v.transaction.input) :
          Call("from", Transfer_from(resp.some.v, m, overflow_checks))

CallTo ==
    /\ CanCall
    /\ \E m \in ERC20Method_from(resp.some.v.transaction.input) :
          Call("to", Transfer_to(resp.some.v, m, overflow_checks))

CallValue ==
    /\ CanCall
    /\ \E m \in ERC20Method_from(resp.some.v.transaction.input) :
          Call("value", Transfer_value(resp.some.v, m, overflow_checks))

CallContract ==
    /\ CanCall
    /\ Call("contract", Transfer_contract(resp.some.v))

CallTxHash ==
    /\ CanCall
    /\ Call("tx_hash", Transfer_tx_hash(resp.some.v))

CallBlockHash ==
    /\ CanCall
    /\ Call("block_hash", Transfer_block_hash(resp.some.v))

CallBlockNumber ==
    /\ CanCall
    /\ Call("block_number", Transfer_block_number(resp.some.v))

CallTransactionIndex ==
    /\ CanCall
    /\ Call("transaction_index", Transfer_transaction_index(resp.some.v))

CallKind ==
    /\ CanCall
    /\ Call("kind", Transfer_kind(resp.some.v))

NextExtract ==
    \/ Classify
    \/ TryFrom
    \/ CallGetFromToValue
    \/ CallFrom
    \/ CallTo
    \/ CallValue
    \/ CallContract
    \/ CallTxHash
    \/ CallBlockHash
    \/ CallBlockNumber
    \/ CallTransactionIndex
    \/ CallKind

SpecExtract == InitExtract /\ [][NextExtract]_vars

Spec == SpecExtract

(***************************************************************************)
(* Properties of the classifier and the extractor.                         *)
(***************************************************************************)
IsTransferCall(p) ==
    /\ p.kind = "ContractInvocation"
    /\ p.c.inv = "ERC20"
    /\ p.c.method \in {"Transfer", "TransferFrom"}

\* C1: extraction returns a transfer exactly when the classifier yields
\* EthereumTransfer or a ContractInvocation resolved to Transfer or
\* TransferFrom; every other transaction, and so every transaction without a
\* recipient, fails with NoTransferTransaction.
C1_ExtractionAcceptsOnlyTransfers ==
    resp # None =>
        /\ resp.some.tag \in {"Ok", "Err"}
        /\ resp.some.tag = "Ok" <=>
              (parsed.some.kind = "EthereumTransfer" \/ IsTransferCall(parsed.some))
        /\ resp.some.tag = "Err" => resp.some.v = "NoTransferTransaction"
        /\ parsed.some.kind \in {"ContractCreation", "Other"} => resp.some.tag = "Err"
        /\ ~IsSome(tx.to) => resp.some.tag = "Err"

\* the scenario of transaction_test.rs: no recipient, Transfer call-data
C1_Witness ==
    /\ resp # None
    /\ ~IsSome(tx.to)
    /\ tx.input = TransferSelector \o TestBody
    /\ resp.some.tag = "Err"
    /\ resp.some.v = "NoTransferTransaction"

\* what the accessor named op returned, when it was the last one called
Returned(op, expected) ==
    (acc # None /\ acc.some.op = op) =>
        (acc.some.r.tag = "Ok" /\ acc.some.r.v = expected)

\* the 32-byte word of the call-data that starts after `offset` bytes, read as
\* a big-endian number: digit k (from the least significant) is byte 32 - k
WordAsU256(input, offset) ==
    [k \in 1..WORD_SIZE_256_BITS |-> input[offset + WORD_SIZE_256_BITS + 1 - k]]

\* the trailing 20 bytes of the word that starts after `offset` bytes
WordAsAddress(input, offset) == SubSeq(input, offset + 13, offset + 32)

\* C2: a Transfer call (selector a9059cbb, at least two words) to a present
\* recipient is extracted, with sender = transaction.from, recipient = the
\* trailing 20 bytes of the first word, amount = the second word as a
\* big-endian number, contract = transaction.to and kind = ERC20.
C2_TransferFields ==
    (/\ resp # None
     /\ IsSome(tx.to)
     /\ starts_with(tx.input, TransferSelector)
     /\ Len(tx.input) >= 4 + 64) =>
        /\ resp.some.tag = "Ok"
        /\ Returned("from", tx.from)
        /\ Returned("to", WordAsAddress(tx.input, 4))
        /\ Returned("value", WordAsU256(tx.input, 36))
        /\ Returned("contract", Some(tx.to.some))
        /\ Returned("kind", "ERC20")
        /\ Returned("get_from_to_value",
                    <<tx.from, WordAsAddress(tx.input, 4), WordAsU256(tx.input, 36)>>)

\* the scenario of the tests: the amount word encodes 2
C2_Witness ==
    /\ IsSome(tx.to)
    /\ tx.input = TransferSelector \o TestBody
    /\ acc # None
    /\ acc.some.op = "value"
    /\ acc.some.r.tag = "Ok"
    /\ acc.some.r.v = [k \in 1..32 |-> IF k = 1 THEN 2 ELSE 0]

\* C3: a TransferFrom call (selector 23b872dd, at least three words) to a
\* present recipient is extracted, with sender = the trailing 20 bytes of the
\* first word, recipient = those of the second word, amount = the third word
\* as a big-endian number and contract = transaction.to.
C3_TransferFromFields ==
    (/\ resp # None
     /\ IsSome(tx.to)
     /\ starts_with(tx.input, TransferFromSelector)
     /\ Len(tx.input) >= 4 + 96) =>
        /\ resp.some.tag = "Ok"
        /\ Returned("from", WordAsAddress(tx.input, 4))
        /\ Returned("to", WordAsAddress(tx.input, 36))
        /\ Returned("value", WordAsU256(tx.input, 68))
        /\ Returned("contract", Some(tx.to.some))
        /\ Returned("kind", "ERC20")
        /\ Returned("get_from_to_value",
                    <<WordAsAddress(tx.input, 4), WordAsAddress(tx.input, 36),
                      WordAsU256(tx.input, 68)>>)

C3_Witness ==
    /\ IsSome(tx.to)
    /\ starts_with(tx.input, TransferFromSelector)
    /\ Len(tx.input) > 4 + 96
    /\ acc # None
    /\ acc.some.op = "from"
    /\ acc.some.r.tag = "Ok"
    /\ acc.some.r.v # tx.from

TooShort(input) ==
    \/ starts_with(input, TransferSelector) /\ Len(input) < 4 + 64
    \/ starts_with(input, TransferFromSelector) /\ Len(input) < 4 + 96

\* C4: a Transfer or TransferFrom call to a present recipient whose call-data
\* is too short for its arguments is not extracted: extraction fails with
\* UnexpectedEndOfData.
C4_TruncatedCallFails ==
    (resp # None /\ IsSome(tx.to) /\ TooShort(tx.input)) =>
        (resp.some.tag = "Err" /\ resp.some.v = "UnexpectedEndOfData")

Accessors ==
    {"from", "to", "value", "contract", "tx_hash", "block_hash",
     "block_number", "transaction_index"}

\* C5: on a transfer that extraction returned, every accessor returns a
\* value on every call; none fails or panics.
C5_AccessorsNeverPanic ==
    (acc # None /\ acc.some.op \in Accessors) => acc.some.r.tag = "Ok"

\* C6: a transaction with a recipient and empty call-data is classified as
\* EthereumTransfer.
C6_PlainTransferIsEthereumTransfer ==
    (parsed # None /\ IsSome(tx.to) /\ Len(tx.input) = 0) =>
        parsed.some.kind = "EthereumTransfer"

\* C7: the classifier returns exactly one category for every transaction:
\* without a recipient, Other for empty and ContractCreation for non-empty
\* call-data; with a recipient and non-empty call-data, ContractInvocation,
\* resolved to ERC20(method, tx) when the first 4 bytes are the selector of
\* one of the six methods and to Other(tx) otherwise.
C7_ClassifierTable ==
    parsed # None =>
        LET p == parsed.some
            named == {key \in NamedMethods :
                        /\ Len(tx.input) >= 4
                        /\ SubSeq(tx.input, 1, 4) = ERC20Method_try_into(key).v}
        IN  /\ p.kind \in {"EthereumTransfer", "ContractInvocation",
                           "ContractCreation", "Other"}
            /\ p.c.transaction = tx
            /\ (~IsSome(tx.to) /\ Len(tx.input) = 0) => p.kind = "Other"
            /\ (~IsSome(tx.to) /\ Len(tx.input) # 0) => p.kind = "ContractCreation"
            /\ (IsSome(tx.to) /\ Len(tx.input) # 0) =>
                  /\ p.kind = "ContractInvocation"
                  /\ IF named = {}
                     THEN p.c.inv = "Other"
                     ELSE p.c.inv = "ERC20" /\ named = {p.c.method}
            /\ p.kind # "ContractInvocation" => p.c.inv = "none"

C7_Witness ==
    /\ parsed # None
    /\ resp = None
    /\ ~IsSome(tx.to)
    /\ Len(tx.input) > 4
    /\ parsed.some.kind = "ContractCreation"

(***************************************************************************)
(* The selector table driven by a caller: forward and reverse lookups.     *)
(***************************************************************************)
\* buffers that miss a selector by one byte
NearMisses ==
    {[prefix EXCEPT ![i] = (prefix[i] + 1) % 256] \o body :
        prefix \in Prefixes, i \in {1, 4}, body \in {<<>>, TestBody}}

RegistryBufs ==
    CallDatas \cup NearMisses
    \cup {SubSeq(prefix, 1, k) : prefix \in Prefixes, k \in 0..3}

InitRegistry ==
    /\ pc = "registry"
    /\ overflow_checks \in BOOLEAN
    /\ buf \in RegistryBufs
    /\ sel = None
    /\ method = None
    /\ IdleAddress
    /\ IdleExtract
    /\ IdleCursor
    /\ IdleCodec

\* let buf: Vec<u8> = value.try_into()?;
TryInto ==
    /\ pc = "registry"
    /\ \E value \in ERC20Method :
          LET r == ERC20Method_try_into_vec(value)
          IN  /\ sel' = Some([of |-> value, r |-> r])
              /\ buf' = IF r.tag = "Ok" THEN r.v ELSE <<>>
    /\ method' = None
    /\ UNCHANGED <<pc, overflow_checks, extractVars, decoder, ret, codecVars, addressVars>>

\* let method: ERC20Method = buf.into();
MethodFrom ==
    /\ pc = "registry"
    /\ \E m \in ERC20Method_from(buf) : method' = Some(m)
    /\ UNCHANGED <<pc, overflow_checks, extractVars, decoder, ret, codecVars,
                   buf, sel, addressVars>>

NextRegistry ==
    \/ TryInto
    \/ MethodFrom

SpecRegistry == InitRegistry /\ [][NextRegistry]_vars

\* C8: the six selectors are pairwise distinct; reverse lookup returns the
\* named method m exactly when the buffer has at least 4 bytes and its first
\* 4 bytes are the selector of m, and Unidentified otherwise, whatever the
\* iteration order of the table; forward then reverse lookup recovers each
\* of the six methods.
C8_SelectorLookup ==
    /\ \A a, b \in NamedMethods :
          a # b => ERC20Method_try_into(a).v # ERC20Method_try_into(b).v
    /\ \A m \in NamedMethods :
          ERC20Method_try_into(m).tag = "Ok" /\ Len(ERC20Method_try_into(m).v) = 4
    /\ ERC20Method_try_into("Transfer").v = <<169, 5, 156, 187>>
    /\ ERC20Method_try_into("TransferFrom").v = <<35, 184, 114, 221>>
    /\ method # None =>
          /\ method.some \in ERC20Method
          /\ \A m \in NamedMethods :
                method.some = m <=>
                    (/\ Len(buf) >= 4
                     /\ SubSeq(buf, 1, 4) = ERC20Method_try_into(m).v)
    /\ (method # None /\ sel # None /\ sel.some.r.tag = "Ok") =>
          method.some = sel.some.of

C8_Witness ==
    /\ sel # None
    /\ sel.some.of = "TotalSupply"
    /\ method = Some("TotalSupply")

(***************************************************************************)
(* A builder filled by a caller, then read back with the matching cursor   *)
(* operations.                                                             *)
(***************************************************************************)
H160s == {Pattern(1, 1, WORD_SIZE_160_BITS), Pattern(236, 1, WORD_SIZE_160_BITS)}
H256s == {Pattern(3, 7, WORD_SIZE_256_BITS)}
U256s == {[k \in 1..WORD_SIZE_256_BITS |-> IF k = 1 THEN 2 ELSE 0],
          Pattern(17, 5, WORD_SIZE_256_BITS)}
Vecs == {<<>>, TransferSelector, <<1, 2, 3>>}

InitCodec ==
    /\ pc = "encode"
    /\ overflow_checks \in BOOLEAN
    /\ encoder = FixedNumberToBytes_default
    /\ pushed = <<>>
    /\ decoded = <<>>
    /\ IdleCursor
    /\ IdleExtract
    /\ IdleRegistry

Push(kind, value, e) ==
    /\ encoder' = e
    /\ pushed' = Append(pushed, [kind |-> kind, v |-> value])
    /\ UNCHANGED <<pc, overflow_checks, extractVars, registryVars, decoder, ret, decoded>>

CanPush == pc = "encode" /\ Len(pushed) < MaxPush

PushVec ==
    /\ CanPush
    /\ \E vec \in Vecs : Push("vec", vec, push_vec(encoder, vec))

PushH160 ==
    /\ CanPush
    /\ \E value \in H160s : Push("h160", value, push_h160(encoder, value))

PushH160NotPadded ==
    /\ CanPush
    /\ \E value \in H160s :
          Push("h160_not_padded", value, push_h160_not_padded(encoder, value))

PushH256 ==
    /\ CanPush
    /\ \E value \in H256s : Push("h256", value, push_h256(encoder, value))

PushU256 ==
    /\ CanPush
    /\ \E value \in U256s : Push("u256", value, push_u256(encoder, value))

\* let encoded_vec: Vec<u8> = encoder.into();
\* let mut decoder: BytesToFixedNumber = encoded_vec.into();
Into ==
    /\ pc = "encode"
    /\ decoder' = BytesToFixedNumber_from(FixedNumberToBytes_into(encoder))
    /\ pc' = "decode"
    /\ UNCHANGED <<overflow_checks, extractVars, registryVars, ret, codecVars>>

\* the cursor operation that matches the next value pushed
CanRead(kind) ==
    /\ pc = "decode"
    /\ Len(decoded) < Len(pushed)
    /\ pushed[Len(decoded) + 1].kind = kind

Read(out) ==
    /\ decoder' = out.c
    /\ decoded' = Append(decoded, out.r)
    /\ pc' = IF out.r.tag = "Panic" THEN "panicked" ELSE "decode"
    /\ UNCHANGED <<overflow_checks, extractVars, registryVars, ret, encoder, pushed>>

ReadVec ==
    /\ CanRead("vec")
    /\ Read(next_vec(decoder, Len(pushed[Len(decoded) + 1].v), overflow_checks))

ReadH160 ==
    /\ CanRead("h160")
    /\ Read(next_h160(decoder, overflow_checks))

ReadH160NotPadded ==
    /\ CanRead("h160_not_padded")
    /\ Read(next_h160_not_padded(decoder, overflow_checks))

ReadH256 ==
    /\ CanRead("h256")
    /\ Read(next_h256(decoder, overflow_checks))

ReadU256 ==
    /\ CanRead("u256")
    /\ Read(next_u256(decoder, overflow_checks))

NextCodec ==
    \/ PushVec
    \/ PushH160
    \/ PushH160NotPadded
    \/ PushH256
    \/ PushU256
    \/ Into
    \/ ReadVec
    \/ ReadH160
    \/ ReadH160NotPadded
    \/ ReadH256
    \/ ReadU256

SpecCodec == InitCodec /\ [][NextCodec]_vars

\* the bytes the claim says one pushed value occupies
Encoding(p) ==
    CASE p.kind = "h160" -> [i \in 1..12 |-> 0] \o p.v
      [] p.kind = "u256" -> [i \in 1..32 |-> p.v[33 - i]]
      [] OTHER -> p.v

RECURSIVE Layout(_)
Layout(ps) == IF ps = <<>> THEN <<>> ELSE Encoding(Head(ps)) \o Layout(Tail(ps))

\* C9: reading a built buffer with the matching sequence of cursor
\* operations returns the pushed values in order and consumes the whole
\* buffer; push_h160 writes 12 zero bytes and the 20 address bytes, push_u256
\* the 32 bytes of the number, most significant first.
C9_EncodeDecodeIdentity ==
    /\ encoder.data = Layout(pushed)
    /\ Len(decoded) <= Len(pushed)
    /\ \A i \in 1..Len(decoded) :
          decoded[i].tag = "Ok" /\ decoded[i].v = pushed[i].v
    /\ (pc = "decode" /\ Len(decoded) = Len(pushed)) =>
          decoder.index = Len(decoder.data)

C9_Witness ==
    /\ pc = "decode"
    /\ Len(pushed) >= 2
    /\ Len(decoded) = Len(pushed)
    /\ pushed[1].kind = "h160"
    /\ pushed[2].kind = "u256"
    /\ pushed[2].v # [i \in 1..32 |-> pushed[2].v[33 - i]]

(***************************************************************************)
(* The contract_value address registry driven by a caller: lookups by address,   *)
(* values built by hand, conversions back and comparisons.                 *)
(***************************************************************************)
UsdcAddress == <<160, 184, 105, 145, 198, 33, 139, 54, 193, 209, 157, 74, 46, 158, 176, 206, 54, 6, 235, 72>>

\* addresses that are in no table entry
UnknownAddresses ==
    {[i \in 1..WORD_SIZE_160_BITS |-> 0],
     Pattern(40, 1, WORD_SIZE_160_BITS),
     [UsdcAddress EXCEPT ![WORD_SIZE_160_BITS] = 73],
     [UsdcAddress EXCEPT ![1] = 161]}

KnownAddresses ==
    IF contract_and_address.tag = "Ok"
    THEN {contract_and_address.v[key] : key \in ContractNames}
    ELSE {}

Addresses == KnownAddresses \cup UnknownAddresses

\* every value of the enum over the modelled addresses
ContractAddressValues ==
    {Named(key) : key \in ContractNames}
    \cup {Unidentified(a) : a \in Addresses}

InitAddress ==
    /\ pc = "address"
    /\ overflow_checks = FALSE
    /\ address \in Addresses
    /\ contract_value = None
    /\ resolved = None
    /\ equal = None
    /\ buf = <<>> /\ sel = None /\ method = None
    /\ IdleExtract
    /\ IdleCursor
    /\ IdleCodec

\* let contract_address: ContractAddress = address.into();
AddressInto ==
    /\ pc = "address"
    /\ contract_value = None
    /\ \E r \in ContractAddress_from(address) :
          /\ contract_value' = Some([origin |-> "lookup", r |-> r])
          /\ pc' = IF r.tag = "Panic" THEN "panicked" ELSE "address"
    /\ resolved' = None
    /\ equal' = None
    /\ UNCHANGED <<overflow_checks, extractVars, decoder, ret, codecVars,
                   buf, sel, method, address>>

\* the caller writes a value of the enum itself
Build ==
    /\ pc = "address"
    /\ contract_value = None
    /\ \E v \in ContractAddressValues :
          contract_value' = Some([origin |-> "built", r |-> Ok(v)])
    /\ resolved' = None
    /\ equal' = None
    /\ UNCHANGED <<pc, overflow_checks, extractVars, decoder, ret, codecVars,
                   buf, sel, method, address>>

\* let back: H160 = contract_address.into();
ContractInto ==
    /\ pc = "address"
    /\ contract_value # None
    /\ \E r \in ContractAddress_into_h160(contract_value.some.r.v) :
          /\ resolved' = Some(r)
          /\ pc' = IF r.tag = "Panic" THEN "panicked" ELSE "address"
    /\ UNCHANGED <<overflow_checks, extractVars, decoder, ret, codecVars,
                   buf, sel, method, address, contract_value, equal>>

\* contract_address == other
Compare ==
    /\ pc = "address"
    /\ contract_value # None
    /\ \E other \in ContractAddressValues :
          equal' = Some([other |-> other,
                         eq |-> ContractAddress_eq(contract_value.some.r.v, other)])
    /\ UNCHANGED <<pc, overflow_checks, extractVars, decoder, ret, codecVars,
                   buf, sel, method, address, contract_value, resolved>>

NextAddress ==
    \/ AddressInto
    \/ Build
    \/ ContractInto
    \/ Compare

SpecAddress == InitAddress /\ [][NextAddress]_vars

\* C12: the 16 known addresses are pairwise distinct; an address converted
\* to a ContractAddress and back is the same address, a known address giving
\* its symbol (the canonical USDC address gives USDC) and any other address
\* Unidentified(a); converting a ContractAddress to an address never panics.
C12_AddressSymbolInverse ==
    /\ contract_and_address.tag = "Ok"
    /\ Cardinality(ContractNames) = 16
    /\ \A a, b \in ContractNames :
          a # b => contract_and_address.v[a] # contract_and_address.v[b]
    /\ contract_and_address.v["USDC"] = UsdcAddress
    /\ (contract_value # None /\ contract_value.some.origin = "lookup") =>
          /\ contract_value.some.r.tag = "Ok"
          /\ \A name \in ContractNames :
                contract_value.some.r.v = Named(name) <=> contract_and_address.v[name] = address
          /\ address \notin KnownAddresses => contract_value.some.r.v = Unidentified(address)
          /\ address = UsdcAddress => contract_value.some.r.v = Named("USDC")
          /\ resolved # None => (resolved.some.tag = "Ok" /\ resolved.some.v = address)
    /\ resolved # None => resolved.some.tag = "Ok"

C12_Witness ==
    /\ address = UsdcAddress
    /\ contract_value # None
    /\ contract_value.some.origin = "lookup"
    /\ contract_value.some.r.v = Named("USDC")
    /\ resolved # None
    /\ resolved.some.tag = "Ok"
    /\ resolved.some.v = UsdcAddress

\* C13: two ContractAddress values are equal exactly when they convert to
\* the same address; Unidentified(a) for the address a of a known token
\* equals that token's variant.
C13_EqualityByAddress ==
    (contract_value # None /\ equal # None) =>
        \A ra \in ContractAddress_into_h160(contract_value.some.r.v),
           rb \in ContractAddress_into_h160(equal.some.other) :
            equal.some.eq <=> (ra.tag = "Ok" /\ rb.tag = "Ok" /\ ra.v = rb.v)

====
